---------------------------- MODULE Spec2Model ----------------------------
(***************************************************************************)
(* A model of txf_continuous_data_pipeline.py: the settlement roll         *)
(* (SettleManager), the session resampler and completeness gate            *)
(* (DataProcessor), the incremental uploader (SheetUploader) and the main  *)
(* run that chains them.                                                   *)
(*                                                                         *)
(* Timestamps are naive local datetimes, held as minutes since             *)
(* 1970-01-01 00:00.  A DataFrame with a sorted, unique DatetimeIndex is a *)
(* function from its index (a finite set of timestamps) to its rows; a     *)
(* worksheet (a list of lists of strings) is a sequence of rows, each row  *)
(* a sequence of cells.  A string that carries digits (a formatted date, a *)
(* number written to a cell) is a record [n |-> digits, s |-> letters].    *)
(***************************************************************************)
EXTENDS Integers, Sequences, FiniteSets, TLC

VARIABLES
    pc,              \* position of the run in main
    df_config,       \* SettleManager.df_config: sequence of settlement rows
    target_contract, \* return value of calculate_next_contract
    df_raw,          \* raw bars from the feed, indexed by ts
    now,             \* the wall clock (UTC+8), read by the gate
    df_5m,           \* 5-minute candles, indexed by ts
    df_60m,          \* 60-minute candles, indexed by ts
    errors,          \* the mismatch lines of the ValueError raised, if any
    sheets,          \* tab name -> worksheet contents (rows of cells)
    sheets_start,    \* history: the worksheets when the run started
    last_call        \* history: for each tab, its latest append_safely call

vars == <<pc, df_config, target_contract, df_raw, now, df_5m, df_60m,
          errors, sheets, sheets_start, last_call>>

-----------------------------------------------------------------------------
(* datetime: dates, weekdays, formatting and parsing                       *)

\* a string: its digit fields and its letters
Str(n, s) == [n |-> n, s |-> s]

MinPerDay == 24 * 60

\* datetime(y, m, d) as a day number (proleptic Gregorian, 1970-01-01 = 0)
DaysFromCivil(y, m, d) ==
    LET yy  == IF m <= 2 THEN y - 1 ELSE y
        era == yy \div 400
        yoe == yy - era * 400
        mp  == IF m > 2 THEN m - 3 ELSE m + 9
        doy == (153 * mp + 2) \div 5 + d - 1
        doe == yoe * 365 + yoe \div 4 - yoe \div 100 + doy
    IN  era * 146097 + doe - 719468

\* the (year, month, day) of a day number
CivilFromDays(z) ==
    LET zz  == z + 719468
        era == zz \div 146097
        doe == zz - era * 146097
        yoe == (doe - doe \div 1460 + doe \div 36524 - doe \div 146096) \div 365
        doy == doe - (365 * yoe + yoe \div 4 - yoe \div 100)
        mp  == (5 * doy + 2) \div 153
        d   == doy - (153 * mp + 2) \div 5 + 1
        m   == IF mp < 10 THEN mp + 3 ELSE mp - 9
        y   == yoe + era * 400 + (IF m <= 2 THEN 1 ELSE 0)
    IN  <<y, m, d>>

\* datetime(y, m, d, hh, mm)
DateTime(y, m, d, hh, mm) == DaysFromCivil(y, m, d) * MinPerDay + hh * 60 + mm

DayOf(ts)    == ts \div MinPerDay
TimeOfDay(ts) == ts % MinPerDay
Hour(ts)     == TimeOfDay(ts) \div 60

\* datetime.weekday(): Monday is 0, Wednesday is 2
Weekday(ts) == (DayOf(ts) + 3) % 7

\* ts.strftime('%Y-%m-%d %H:%M:%S')
StrfDateTime(ts) ==
    LET c == CivilFromDays(DayOf(ts))
    IN  Str(<<c[1], c[2], c[3], Hour(ts), TimeOfDay(ts) % 60, 0>>, "")

\* ts.strftime('%Y-%m-%d')
StrfDate(ts) == CivilFromDays(DayOf(ts))

\* ts.strftime('%y%m%d')
StrfShortDate(ts) ==
    LET c == CivilFromDays(DayOf(ts))
    IN  <<c[1] % 100, c[2], c[3]>>

\* dt.strftime('%Y%m'): the six digits YYYYMM
StrfYearMonth(ts) ==
    LET c == CivilFromDays(DayOf(ts))
    IN  Str(<<c[1] * 100 + c[2]>>, "")

\* datetime.strptime(str(ym), '%Y%m'): the first day of that month, 00:00
StrpYearMonth(ym) == DateTime(ym.n[1] \div 100, ym.n[1] % 100, 1, 0, 0)

-----------------------------------------------------------------------------
(* SettleManager                                                           *)

\* the loop of lines 203-204: day by day until weekday() is 2
RECURSIVE NextWednesday(_)
NextWednesday(ts) ==
    IF Weekday(ts) # 2 THEN NextWednesday(ts + MinPerDay) ELSE ts

\* PredictedRow with the next month taken 30 days after the first of the month
PredictedRow_30days(last_row) ==
    LET last_ym_dt == StrpYearMonth(last_row.contract_year_month)
        new_ym_dt  == last_ym_dt + 30 * MinPerDay
        c          == CivilFromDays(DayOf(new_ym_dt))
        first_day  == DateTime(c[1], c[2], 1, 0, 0)
        third_wed  == NextWednesday(first_day + 14 * MinPerDay)
    IN  [contract_year_month       |-> StrfYearMonth(new_ym_dt),
         accumulated_contract_diff |-> last_row.accumulated_contract_diff
                                        + last_row.next_contract_diff,
         start_k                   |-> last_row.settle_k + 5,
         settle_k                  |-> third_wed + 13 * 60 + 25]

\* the row calculate_next_contract predicts from the last row
PredictedRow(last_row) ==
    LET last_ym_dt == StrpYearMonth(last_row.contract_year_month)
        new_ym_dt  == last_ym_dt + 31 * MinPerDay
        c          == CivilFromDays(DayOf(new_ym_dt))
        first_day  == DateTime(c[1], c[2], 1, 0, 0)
        third_wed  == NextWednesday(first_day + 14 * MinPerDay)
    IN  [contract_year_month       |-> StrfYearMonth(new_ym_dt),
         accumulated_contract_diff |-> last_row.accumulated_contract_diff
                                        + last_row.next_contract_diff,
         start_k                   |-> last_row.settle_k + 5,
         settle_k                  |-> third_wed + 13 * 60 + 25]

\* 'MXF' + new_contract_ym
ContractCode(ym) == Str(ym.n, "MXF")

-----------------------------------------------------------------------------
(* DataFrame helpers                                                       *)

Min(S) == CHOOSE x \in S : \A y \in S : x <= y
Max(S) == CHOOSE x \in S : \A y \in S : x >= y

RECURSIVE SumOver(_, _, _)
SumOver(df, T, col) ==
    IF T = {} THEN 0
    ELSE LET t == Min(T) IN df[t][col] + SumOver(df, T \ {t}, col)

\* df restricted to the index values in S
Restrict(df, S) == [t \in S |-> df[t]]

\* .agg({'Open': 'first', 'High': 'max', 'Low': 'min', 'Close': 'last',
\*       'Volume': 'sum'}) over bin, the rows of one bin
Agg(bin) ==
    LET T == DOMAIN bin
    IN  [Open   |-> bin[Min(T)].Open,
         High   |-> Max({bin[t].High : t \in T}),
         Low    |-> Min({bin[t].Low : t \in T}),
         Close  |-> bin[Max(T)].Close,
         Volume |-> SumOver(bin, T, "Volume")]

-----------------------------------------------------------------------------
(* DataProcessor.resample_and_split                                        *)

MARKET_HOURS ==
    [D |-> [open |-> 8 * 60 + 45, close |-> 13 * 60 + 45],
     N |-> [open |-> 15 * 60,     close |-> 5 * 60]]

\* resample('5min', label="left", closed='right'): the bin (L, L+5] of ts
Label5(ts) == ((ts - 1) \div 5) * 5

\* Label60 with the offset left out
Label60_no_offset(ts, off) == (ts \div 60) * 60

\* resample('60min', offset=off): the bin [L, L+60) of ts
Label60(ts, off) == ((ts - off) \div 60) * 60 + off

\* df_raw.resample('5min', label="left", closed='right').agg(...).dropna()
Resample5(df) ==
    LET index  == DOMAIN df
        labels == {Label5(t) : t \in index}
    IN  [L \in labels |->
            Agg(Restrict(df, {t \in (L + 1)..(L + 5) : t \in index}))]

\* df.resample("60min", offset=off).agg(...).dropna()
Resample60(df, off) ==
    LET index  == DOMAIN df
        labels == {Label60(t, off) : t \in index}
    IN  [L \in labels |->
            Agg(Restrict(df, {t \in L..(L + 59) : t \in index}))]

\* df.between_time(open, close): both ends included, wrapping past midnight
\* when open > close
between_time(df, open, close) ==
    Restrict(df, {t \in DOMAIN df :
                    IF open <= close
                    THEN open <= TimeOfDay(t) /\ TimeOfDay(t) <= close
                    ELSE open <= TimeOfDay(t) \/ TimeOfDay(t) <= close})

get_market_date_str(ts, is_night) ==
    LET target_ts == IF is_night /\ Hour(ts) < 5 THEN ts - MinPerDay ELSE ts
        suffix    == IF is_night THEN "N" ELSE "D"
    IN  Str(StrfShortDate(target_ts), suffix)

\* df_temp['date_market_type'] = ... (line 291)
Tagged(df, is_night) ==
    [t \in DOMAIN df |->
        LET row == df[t]
        IN  [Open |-> row.Open, High |-> row.High, Low |-> row.Low,
             Close |-> row.Close, Volume |-> row.Volume,
             date_market_type |-> get_market_date_str(t, is_night)]]

\* Matches with the window open at settle_k
Matches_before_settle(ts, cfg) ==
    {i \in 1..Len(cfg) : ts >= cfg[i].start_k /\ ts < cfg[i].settle_k}

\* the positions of the settlement rows whose window holds ts
Matches(ts, cfg) ==
    {i \in 1..Len(cfg) : ts >= cfg[i].start_k /\ ts <= cfg[i].settle_k}

enrich_row(ts, row, cfg) ==
    LET match == Matches(ts, cfg)
    IN  IF match # {}
        THEN LET c    == cfg[Min(match)]
                 diff == c.accumulated_contract_diff
             IN  [Open   |-> row.Open + diff,
                  High   |-> row.High + diff,
                  Low    |-> row.Low + diff,
                  Close  |-> row.Close + diff,
                  Volume |-> row.Volume,
                  date_market_type          |-> row.date_market_type,
                  contract_year_month       |-> c.contract_year_month,
                  accumulated_contract_diff |-> diff]
        ELSE [Open   |-> row.Open,
              High   |-> row.High,
              Low    |-> row.Low,
              Close  |-> row.Close,
              Volume |-> row.Volume,
              date_market_type          |-> row.date_market_type,
              contract_year_month       |-> Str(<<>>, ""),
              accumulated_contract_diff |-> 0]

process_final_df(df_d, df_n, cfg) ==
    LET df_all == df_d @@ df_n
    IN  [t \in DOMAIN df_all |-> enrich_row(t, df_all[t], cfg)]

\* the four frames of lines 263-291, before the adjustment
SplitFrames(raw) ==
    LET df_5m_all == Resample5(raw)
        df_5m_D   == between_time(df_5m_all, MARKET_HOURS.D.open,
                                  MARKET_HOURS.D.close)
        df_5m_N   == between_time(df_5m_all, MARKET_HOURS.N.open,
                                  MARKET_HOURS.N.close)
    IN  [m5D  |-> Tagged(df_5m_D, FALSE),
         m5N  |-> Tagged(df_5m_N, TRUE),
         m60D |-> Tagged(Resample60(df_5m_D, 45), FALSE),
         m60N |-> Tagged(Resample60(df_5m_N, 0), TRUE)]

\* the pair (df_5m_final, df_60m_final)
resample_and_split(raw, cfg) ==
    LET f == SplitFrames(raw)
    IN  <<process_final_df(f.m5D, f.m5N, cfg),
          process_final_df(f.m60D, f.m60N, cfg)>>

-----------------------------------------------------------------------------
(* DataProcessor: the completeness gate                                    *)

EXPECTED ==
    [x \in {"5min", "60min"} |->
        IF x = "5min" THEN [D |-> 60, N |-> 168] ELSE [D |-> 5, N |-> 14]]

\* df.iloc[-200:]
TailRows == 200

\* the number of index values of df after ts
RowsAfter(df, ts) == Cardinality({u \in DOMAIN df : u > ts})

\* df.iloc[-k:]
IlocTail(df, k) == Restrict(df, {t \in DOMAIN df : RowsAfter(df, t) < k})

\* IlocDropLast dropping one row less
IlocDropLast_one_less(df, k) ==
    Restrict(df, {t \in DOMAIN df : RowsAfter(df, t) >= k - 1})

\* df.iloc[:-k], for k >= 1
IlocDropLast(df, k) == Restrict(df, {t \in DOMAIN df : RowsAfter(df, t) >= k})

\* get_group_id of drop_incomplete_current_session (lines 341-345)
get_group_id_drop(ts) ==
    IF 8 <= Hour(ts) /\ Hour(ts) <= 13 THEN Str(StrfDate(ts), "D")
    ELSE IF Hour(ts) >= 15 THEN Str(StrfDate(ts), "N")
    ELSE IF Hour(ts) < 5 THEN Str(StrfDate(ts - MinPerDay), "N")
    ELSE Str(<<>>, "UNKNOWN")

\* EXPECTED[timeframe].get(group_id.split('_')[-1], 0)
ExpectedGet(timeframe, group_id) ==
    IF group_id.s \in DOMAIN EXPECTED[timeframe]
    THEN EXPECTED[timeframe][group_id.s] ELSE 0

drop_incomplete_current_session(df, timeframe, clock) ==
    IF timeframe \notin DOMAIN EXPECTED \/ DOMAIN df = {} THEN df
    ELSE LET last_ts           == Max(DOMAIN df)
             last_group_id     == get_group_id_drop(last_ts)
             current_active_id == get_group_id_drop(clock)
             df_tail           == IlocTail(df, TailRows)
             last_group_count  ==
                 Cardinality({t \in DOMAIN df_tail :
                                get_group_id_drop(t) = last_group_id})
             expected_count    == ExpectedGet(timeframe, last_group_id)
         IN  IF last_group_id = current_active_id
                /\ last_group_count < expected_count
             THEN IlocDropLast(df, last_group_count)
             ELSE df

\* get_group_id of check_completeness (lines 380-386)
get_group_id(ts) ==
    IF 8 <= Hour(ts) /\ Hour(ts) <= 13 THEN Str(StrfDate(ts), "D")
    ELSE IF Hour(ts) >= 15 THEN Str(StrfDate(ts), "N")
    ELSE IF Hour(ts) < 5 THEN Str(StrfDate(ts - MinPerDay), "N")
    ELSE Str(<<>>, "UNKNOWN")

\* the rows of df in group g
SessionOf(df, g) == {t \in DOMAIN df : get_group_id(t) = g}

\* groups.value_counts(): group id -> number of rows
value_counts(df) ==
    LET groups == {get_group_id(t) : t \in DOMAIN df}
    IN  [g \in groups |-> Cardinality(SessionOf(df, g))]

\* check_completeness raising at the first mismatch it meets
check_completeness_first_only(df, timeframe) ==
    IF timeframe \notin DOMAIN EXPECTED \/ DOMAIN df = {} THEN {}
    ELSE LET counts == value_counts(df)
             bad    == {h \in DOMAIN counts :
                          /\ h.s # "UNKNOWN"
                          /\ counts[h] # EXPECTED[timeframe][h.s]}
             first  == CHOOSE g \in bad :
                          \A h \in bad : Min(SessionOf(df, g))
                                            <= Min(SessionOf(df, h))
         IN  IF bad = {} THEN {}
             ELSE {[group_id |-> first,
                    expected |-> EXPECTED[timeframe][first.s],
                    actual   |-> counts[first]]}

\* the mismatch lines check_completeness collects; it raises ValueError
\* when there is one, and returns otherwise
check_completeness(df, timeframe) ==
    IF timeframe \notin DOMAIN EXPECTED \/ DOMAIN df = {} THEN {}
    ELSE LET counts == value_counts(df)
         IN  {[group_id |-> g,
               expected |-> EXPECTED[timeframe][g.s],
               actual   |-> counts[g]] :
                 g \in {h \in DOMAIN counts :
                          /\ h.s # "UNKNOWN"
                          /\ counts[h] # EXPECTED[timeframe][h.s]}}

-----------------------------------------------------------------------------
(* SheetUploader                                                           *)

TAB_NAME_5MIN  == "5mink_new"
TAB_NAME_60MIN == "60mink_1"

FORCE_MXFR1 == TRUE

\* the columns of a candle frame, in the order they were added
CandleColumns ==
    <<"Open", "High", "Low", "Close", "Volume", "date_market_type",
      "contract_year_month", "accumulated_contract_diff", "MXF_code">>

NumericColumns ==
    {"Open", "High", "Low", "Close", "Volume", "accumulated_contract_diff"}

\* df['MXF_code'] = used_code (lines 510-511)
WithCode(df, used_code) ==
    [t \in DOMAIN df |->
        [Open |-> df[t].Open, High |-> df[t].High, Low |-> df[t].Low,
         Close |-> df[t].Close, Volume |-> df[t].Volume,
         date_market_type          |-> df[t].date_market_type,
         contract_year_month       |-> df[t].contract_year_month,
         accumulated_contract_diff |-> df[t].accumulated_contract_diff,
         MXF_code                  |-> used_code]]

\* the index values S in ascending order
SortedIndex(S) ==
    LET rank == [t \in S |-> Cardinality({u \in S : u < t}) + 1]
    IN  [i \in 1..Cardinality(S) |-> CHOOSE t \in S : rank[t] = i]

\* pd.to_datetime(string): a timestamp, NaT for the empty string, or an
\* exception for a string that is no date
to_datetime(str) ==
    IF str.s = "" /\ Len(str.n) = 6
    THEN [kind |-> "ts",
          ts   |-> DateTime(str.n[1], str.n[2], str.n[3], str.n[4], str.n[5])]
    ELSE IF str.s = "" /\ Len(str.n) = 0
    THEN [kind |-> "NaT", ts |-> 0]
    ELSE [kind |-> "error", ts |-> 0]

\* the string a value of column col becomes in df_export.values.tolist()
CellOf(df, t, col) ==
    IF col = "ts" THEN StrfDateTime(t)
    ELSE IF col \in NumericColumns THEN Str(<<df[t][col]>>, "")
    ELSE df[t][col]

\* the rows of df_process[cols] for the index values keep, in index order
ExportRows(df, keep, cols) ==
    LET idx == SortedIndex(keep)
    IN  [i \in 1..Len(idx) |->
            [j \in 1..Len(cols) |-> CellOf(df, idx[i], cols[j])]]

\* headers.index('ts'), 1-based
IndexOfTs(headers) ==
    Min({j \in 1..Len(headers) : headers[j] = Str(<<>>, "ts")})

\* existing_data[-1] (line 432) with the first data row taken instead
LastRow_first(existing_data) == existing_data[2]

\* existing_data[-1] (line 432)
LastRow(existing_data) == existing_data[Len(existing_data)]

\* current_ts_series > last_ts with the comparison not strict
NewerThan_or_equal(ts, last_ts) ==
    ts.kind = "ts" /\ last_ts.kind = "ts" /\ ts.ts >= last_ts.ts

\* current_ts_series > last_ts (line 436): a comparison with NaT is False
NewerThan(ts, last_ts) ==
    ts.kind = "ts" /\ last_ts.kind = "ts" /\ ts.ts > last_ts.ts

\* _prepare_data: the frame to export (its columns, its rows) and whether a
\* header is needed; pd.DataFrame() is the frame without columns and rows
_prepare_data(df_new, existing_data) ==
    LET columns == <<"ts">> \o
                   SelectSeq(CandleColumns,
                             LAMBDA c : \A t \in DOMAIN df_new :
                                           c \in DOMAIN df_new[t])
        Known(h) == h.n = <<>> /\ \E j \in 1..Len(columns) : columns[j] = h.s
        Names(hs) == [j \in 1..Len(hs) |-> hs[j].s]
        empty == [columns |-> <<>>, rows |-> <<>>, needs_header |-> FALSE]
    IN  IF existing_data = <<>>
        THEN [columns |-> columns,
              rows |-> ExportRows(df_new, DOMAIN df_new, columns),
              needs_header |-> TRUE]
        ELSE LET headers == existing_data[1] IN
        IF Len(existing_data) = 1
        THEN LET valid_cols == Names(SelectSeq(headers, Known))
             IN  [columns |-> valid_cols,
                  rows |-> ExportRows(df_new, DOMAIN df_new, valid_cols),
                  needs_header |-> FALSE]
        ELSE LET ts_col_idx  == IF \E j \in 1..Len(headers) :
                                      headers[j] = Str(<<>>, "ts")
                                THEN IndexOfTs(headers) ELSE 1
                 last_row    == LastRow(existing_data)
             IN  IF ts_col_idx > Len(last_row) THEN empty
                 ELSE LET last_ts == to_datetime(last_row[ts_col_idx]) IN
                 IF last_ts.kind = "error" THEN empty
                 ELSE LET keep ==
                            {t \in DOMAIN df_new :
                                NewerThan(to_datetime(StrfDateTime(t)),
                                          last_ts)}
                          valid_cols == Names(SelectSeq(headers, Known))
                      IN  IF keep = {} THEN empty
                          ELSE [columns |-> valid_cols,
                                rows |-> ExportRows(df_new, keep, valid_cols),
                                needs_header |-> FALSE]

\* df_export.empty: no rows or no columns
IsEmptyFrame(df_export) == df_export.rows = <<>> \/ df_export.columns = <<>>

\* data_to_write of append_safely (lines 464-467)
data_to_write(df_export) ==
    IF df_export.needs_header
    THEN <<[j \in 1..Len(df_export.columns) |->
              Str(<<>>, df_export.columns[j])]>> \o df_export.rows
    ELSE df_export.rows

\* the worksheet after append_safely read existing_data and its
\* append_rows call succeeded (or it had no new data)
AfterAppend(existing_data, df_new) ==
    LET df_export == _prepare_data(df_new, existing_data)
    IN  IF ~IsEmptyFrame(df_export)
        THEN existing_data \o data_to_write(df_export)
        ELSE existing_data

-----------------------------------------------------------------------------
(* The settlement roll on its own                                          *)

\* the contract months the settlement table may end at: NumMonths months
\* from January of FirstYear
FirstYear == 2023
NumMonths == 36

YearMonths ==
    {Str(<<(FirstYear + k \div 12) * 100 + (k % 12) + 1>>, "") :
        k \in 0..(NumMonths - 1)}

\* a settlement row of the table
SettleRow(ym, start_k, settle_k, next_diff, acc_diff) ==
    [contract_year_month       |-> ym,
     start_k                   |-> start_k,
     settle_k                  |-> settle_k,
     next_contract_diff        |-> next_diff,
     accumulated_contract_diff |-> acc_diff]

\* last rows of the table: any contract month, a settlement on the 15th,
\* 20th or 21st at 13:25, any pair of price differences
LastRows ==
    {SettleRow(ym, StrpYearMonth(ym) - 20 * MinPerDay,
               StrpYearMonth(ym) + (d - 1) * MinPerDay + 13 * 60 + 25,
               nd, ad) :
        ym \in YearMonths, d \in {15, 20, 21}, nd \in {-30, 45},
        ad \in {0, 120}}

\* an earlier row, before every row of LastRows
OlderRow ==
    SettleRow(Str(<<(FirstYear - 1) * 100 + 11>>, ""),
              DateTime(FirstYear - 1, 10, 19, 13, 30),
              DateTime(FirstYear - 1, 11, 16, 13, 25), 10, 0)

SettleConfigs == {<<r>> : r \in LastRows} \cup {<<OlderRow, r>> : r \in LastRows}

NoContract == Str(<<>>, "")
NoSheets == [tab \in {TAB_NAME_5MIN, TAB_NAME_60MIN} |-> <<>>]
NoCall == [tab \in {TAB_NAME_5MIN, TAB_NAME_60MIN} |-> [called |-> FALSE]]

InitSettle ==
    /\ pc = "start"
    /\ df_config \in SettleConfigs
    /\ target_contract = NoContract
    /\ df_raw = <<>>
    /\ now = 0
    /\ df_5m = <<>>
    /\ df_60m = <<>>
    /\ errors = [timeframe |-> "", lines |-> {}]
    /\ sheets = NoSheets
    /\ sheets_start = NoSheets
    /\ last_call = NoCall

\* SettleManager.calculate_next_contract (main, line 492)
calculate_next_contract ==
    /\ pc = "start"
    /\ df_config # <<>>
    /\ LET new_row == PredictedRow(df_config[Len(df_config)])
       IN  /\ df_config' = Append(df_config, new_row)
           /\ target_contract' = ContractCode(new_row.contract_year_month)
    /\ pc' = "fetch"
    /\ UNCHANGED <<df_raw, now, df_5m, df_60m, errors, sheets, sheets_start,
                   last_call>>

NextSettle == calculate_next_contract

SpecSettle == InitSettle /\ [][NextSettle]_vars

\* the calendar month after (y, m)
MonthAfter(y, m) == IF m = 12 THEN (y + 1) * 100 + 1 ELSE y * 100 + m + 1

(***************************************************************************)
(* C7: calculate_next_contract appends exactly one record to the           *)
(* settlement sequence.  With L the last record before the call, the new   *)
(* record's contract_year_month is the year-month of (first day of         *)
(* L.contract_year_month + 31 days), which is the next calendar month; its *)
(* settle_k is a Wednesday with day-of-month 15..21 of that month, at      *)
(* 13:25; its start_k is L.settle_k + 5 minutes; its                       *)
(* accumulated_contract_diff is L.accumulated_contract_diff +              *)
(* L.next_contract_diff; the call returns "MXF" + that year-month.  For    *)
(* L = (202403, settle_k 2024-03-20 13:25) the result is MXF202404 with    *)
(* settle_k 2024-04-17 13:25 and start_k 2024-03-20 13:30.                 *)
(***************************************************************************)
C7_NextContract ==
    [][pc = "start" /\ pc' = "fetch" =>
        LET L  == df_config[Len(df_config)]
            P  == df_config'[Len(df_config')]
            y  == L.contract_year_month.n[1] \div 100
            m  == L.contract_year_month.n[1] % 100
            plus31 == CivilFromDays(DaysFromCivil(y, m, 1) + 31)
            sc == CivilFromDays(DayOf(P.settle_k))
        IN  /\ Len(df_config') = Len(df_config) + 1
            /\ SubSeq(df_config', 1, Len(df_config)) = df_config
            /\ P.contract_year_month = Str(<<plus31[1] * 100 + plus31[2]>>, "")
            /\ P.contract_year_month.n[1] = MonthAfter(y, m)
            /\ sc[1] * 100 + sc[2] = P.contract_year_month.n[1]
            /\ Weekday(P.settle_k) = 2
            /\ sc[3] >= 15 /\ sc[3] <= 21
            /\ TimeOfDay(P.settle_k) = 13 * 60 + 25
            /\ P.start_k = L.settle_k + 5
            /\ P.accumulated_contract_diff
                 = L.accumulated_contract_diff + L.next_contract_diff
            /\ target_contract' = Str(P.contract_year_month.n, "MXF")
            /\ (L.contract_year_month = Str(<<202403>>, "")
                /\ L.settle_k = DateTime(2024, 3, 20, 13, 25)
                => /\ target_contract' = Str(<<202404>>, "MXF")
                   /\ P.settle_k = DateTime(2024, 4, 17, 13, 25)
                   /\ P.start_k = DateTime(2024, 3, 20, 13, 30))]_vars

\* the roll from 202403 (settled 2024-03-20 13:25) has been predicted
C7_Witness ==
    /\ pc = "fetch"
    /\ Len(df_config) >= 2
    /\ df_config[Len(df_config) - 1].contract_year_month = Str(<<202403>>, "")
    /\ df_config[Len(df_config) - 1].settle_k = DateTime(2024, 3, 20, 13, 25)
    /\ target_contract = Str(<<202404>>, "MXF")
    /\ df_config[Len(df_config)].settle_k = DateTime(2024, 4, 17, 13, 25)
    /\ df_config[Len(df_config)].start_k = DateTime(2024, 3, 20, 13, 30)

-----------------------------------------------------------------------------
(* The feed, the settlement roll and the resampler                         *)

\* the feed's bar at minute t: prices and volume vary with t, differently
\* for each pattern p
Bar(t, p) ==
    LET open  == 17000 + ((t * p) % 7) * 3
        close == 17000 + ((t * (p + 1)) % 5) * 4 - 3
    IN  [Open   |-> open,
         High   |-> (IF open >= close THEN open ELSE close) + (t % (p + 1)),
         Low    |-> (IF open <= close THEN open ELSE close) - ((t + p) % 3),
         Close  |-> close,
         Volume |-> 1 + (t % 4)]

NumPatterns == 2

\* how the feed stamps the bar of a minute: with the minute's end, with its
\* start, or one bar at each whole minute from the open to the close
Conventions == {"end", "start", "both"}

\* the minutes after from, up to to, as stamped under convention conv
SessionMinutes(from, to, conv) ==
    {t \in from..to : /\ (conv = "end" => t > from)
                      /\ (conv = "start" => t < to)}

\* the bars of the Day session of day d
DayMinutes(d, conv) ==
    SessionMinutes(d * MinPerDay + MARKET_HOURS.D.open,
                   d * MinPerDay + MARKET_HOURS.D.close, conv)

\* the bars of the Night session that opens on day d
NightMinutes(d, conv) ==
    SessionMinutes(d * MinPerDay + MARKET_HOURS.N.open,
                   (d + 1) * MinPerDay + MARKET_HOURS.N.close, conv)

\* the settlement days around which the feed is sampled: every fourth
\* Wednesday from 2024-02-21, and the day after each
NumCycles == 3

CycleDays ==
    {DaysFromCivil(2024, 2, 21) + 28 * k + j : k \in 0..(NumCycles - 1),
                                              j \in {0, 1}}

\* settlement tables as loaded: windows 5 minutes apart, the accumulated
\* difference carried forward
Row202402(acc, next) ==
    SettleRow(Str(<<202402>>, ""), DateTime(2024, 1, 17, 13, 30),
              DateTime(2024, 2, 21, 13, 25), next, acc)
Row202403(acc, next) ==
    SettleRow(Str(<<202403>>, ""), DateTime(2024, 2, 21, 13, 30),
              DateTime(2024, 3, 20, 13, 25), next, acc)

LoadedConfigs ==
    {<<Row202402(0, -35), Row202403(-35, 52)>>,
     <<Row202402(80, 25), Row202403(105, -40)>>,
     <<Row202403(-35, 52)>>}

InitResample ==
    /\ pc = "start"
    /\ df_config \in LoadedConfigs
    /\ target_contract = NoContract
    /\ df_raw = <<>>
    /\ now = 0
    /\ df_5m = <<>>
    /\ df_60m = <<>>
    /\ errors = [timeframe |-> "", lines |-> {}]
    /\ sheets = NoSheets
    /\ sheets_start = NoSheets
    /\ last_call = NoCall

\* fetch_and_parse_kbars when the feed covers one full Day session and one
\* full Night session with a bar at every minute, the Day session first or
\* the Night session first
fetch_full_cycle ==
    /\ pc = "fetch"
    /\ \E d \in CycleDays, conv \in Conventions, p \in 1..NumPatterns,
          night_first \in BOOLEAN :
          LET minutes == DayMinutes(d, conv) \cup
                         NightMinutes(IF night_first THEN d - 1 ELSE d, conv)
          IN  /\ df_raw' = [t \in minutes |-> Bar(t, p)]
              /\ now' = Max(minutes) + 3 * 60
    /\ pc' = "fetched"
    /\ UNCHANGED <<df_config, target_contract, df_5m, df_60m, errors, sheets,
                   sheets_start, last_call>>

\* main, lines 499-501
resample ==
    /\ pc = "fetched"
    /\ DOMAIN df_raw # {}
    /\ LET r == resample_and_split(df_raw, df_config)
       IN  /\ df_5m' = r[1]
           /\ df_60m' = r[2]
    /\ pc' = "resampled"
    /\ UNCHANGED <<df_config, target_contract, df_raw, now, errors, sheets,
                   sheets_start, last_call>>

NextResample == calculate_next_contract \/ fetch_full_cycle \/ resample

SpecResample == InitResample /\ [][NextResample]_vars

\* the raw bars behind the candle labelled L: for a 5-minute candle the
\* bars of (L, L+5]; for a 60-minute candle the bars whose 5-minute label
\* lies in [L, L+60) and in the candle's session split
RawBin(tf, L, is_night) ==
    IF tf = "5min"
    THEN {t \in (L + 1)..(L + 5) : t \in DOMAIN df_raw}
    ELSE {t \in (L + 1)..(L + 60) :
            /\ t \in DOMAIN df_raw
            /\ LET tod == TimeOfDay(Label5(t))
               IN  IF is_night
                   THEN tod >= 15 * 60 \/ tod <= 5 * 60
                   ELSE tod >= 8 * 60 + 45 /\ tod <= 13 * 60 + 45}

\* row holds the first/max/min/last of the raw bars in bin, each plus diff
AdjustedBy(row, bin, diff) ==
    LET bars == [t \in bin |-> df_raw[t]]
    IN  /\ bin # {}
        /\ \A t \in bin :
              /\ (\A v \in bin : t <= v) => row.Open = bars[t].Open + diff
              /\ (\A v \in bin : t >= v) => row.Close = bars[t].Close + diff
        /\ \E t \in bin : row.High = bars[t].High + diff
        /\ \A t \in bin : row.High >= bars[t].High + diff
        /\ \E t \in bin : row.Low = bars[t].Low + diff
        /\ \A t \in bin : row.Low <= bars[t].Low + diff

\* consecutive windows are 5 minutes apart
Contiguous(cfg) ==
    \A i \in 1..(Len(cfg) - 1) : cfg[i + 1].start_k = cfg[i].settle_k + 5

Frame(tf) == IF tf = "5min" THEN df_5m ELSE df_60m

(***************************************************************************)
(* C8: for every candle output by resample_and_split, of either timeframe: *)
(* if its timestamp lies in a settlement window [start_k, settle_k], ends  *)
(* included, its Open, High, Low and Close are the aggregated raw values   *)
(* plus that window's accumulated_contract_diff and its                    *)
(* contract_year_month is that window's; if its timestamp lies before      *)
(* every start_k or after every settle_k the prices are the aggregated raw *)
(* values, the diff is 0 and contract_year_month is empty; and in a        *)
(* settlement sequence whose consecutive windows are 5 minutes apart no    *)
(* two windows share a timestamp.                                          *)
(***************************************************************************)
C8_BackAdjustment ==
    pc = "resampled" =>
      /\ \A tf \in {"5min", "60min"} : \A L \in DOMAIN Frame(tf) :
            LET row == Frame(tf)[L]
                bin == RawBin(tf, L, row.date_market_type.s = "N")
            IN  /\ \A i \in 1..Len(df_config) :
                      (L >= df_config[i].start_k /\ L <= df_config[i].settle_k)
                      => /\ AdjustedBy(row, bin,
                                       df_config[i].accumulated_contract_diff)
                         /\ row.accumulated_contract_diff
                              = df_config[i].accumulated_contract_diff
                         /\ row.contract_year_month
                              = df_config[i].contract_year_month
                /\ ((\A i \in 1..Len(df_config) : L < df_config[i].start_k)
                    \/ (\A i \in 1..Len(df_config) : L > df_config[i].settle_k))
                   => /\ AdjustedBy(row, bin, 0)
                      /\ row.accumulated_contract_diff = 0
                      /\ row.contract_year_month = Str(<<>>, "")
      /\ Contiguous(df_config) =>
            \A i \in 1..Len(df_config) : \A j \in 1..Len(df_config) :
                i # j =>
                  ~ \E t \in df_config[i].start_k..df_config[i].settle_k :
                        t >= df_config[j].start_k /\ t <= df_config[j].settle_k

\* on 2024-04-17 the 13:25 candle is the last of the predicted window and
\* carries its difference; the 13:30 candle is after every window
C8_Witness ==
    /\ pc = "resampled"
    /\ DateTime(2024, 4, 17, 13, 25) \in DOMAIN df_5m
    /\ df_5m[DateTime(2024, 4, 17, 13, 25)].contract_year_month
         = Str(<<202404>>, "")
    /\ df_5m[DateTime(2024, 4, 17, 13, 25)].accumulated_contract_diff # 0
    /\ DateTime(2024, 4, 17, 13, 30) \in DOMAIN df_5m
    /\ df_5m[DateTime(2024, 4, 17, 13, 30)].contract_year_month = Str(<<>>, "")
    /\ DateTime(2024, 4, 17, 12, 45) \in DOMAIN df_60m
    /\ df_60m[DateTime(2024, 4, 17, 12, 45)].contract_year_month
         = Str(<<202404>>, "")

\* the candles of df tagged with session suffix
TaggedWith(df, suffix) ==
    {t \in DOMAIN df : df[t].date_market_type.s = suffix}

\* the session tags that occur in df with suffix
TagsOf(df, suffix) ==
    {df[t].date_market_type : t \in TaggedWith(df, suffix)}

(***************************************************************************)
(* C9: when the raw bars are one bar at every minute of one full Day       *)
(* session and one full Night session, resample_and_split yields exactly   *)
(* 60 five-minute candles tagged with one Day session and 168 tagged with  *)
(* one Night session, 5 sixty-minute Day candles and 14 sixty-minute Night *)
(* candles, and check_completeness finds no mismatch in either output.     *)
(***************************************************************************)
C9_FullCycleCounts ==
    pc = "resampled" =>
      /\ Cardinality(TaggedWith(df_5m, "D")) = 60
      /\ Cardinality(TaggedWith(df_5m, "N")) = 168
      /\ Cardinality(DOMAIN df_5m) = 60 + 168
      /\ Cardinality(TaggedWith(df_60m, "D")) = 5
      /\ Cardinality(TaggedWith(df_60m, "N")) = 14
      /\ Cardinality(DOMAIN df_60m) = 5 + 14
      /\ \A suffix \in {"D", "N"} :
            /\ Cardinality(TagsOf(df_5m, suffix)) = 1
            /\ TagsOf(df_60m, suffix) = TagsOf(df_5m, suffix)
      /\ check_completeness(df_5m, "5min") = {}
      /\ check_completeness(df_60m, "60min") = {}

\* a full cycle stamped at each minute's start has been resampled
C9_Witness ==
    /\ pc = "resampled"
    /\ DateTime(2024, 3, 20, 8, 45) \in DOMAIN df_raw
    /\ DateTime(2024, 3, 20, 13, 45) \notin DOMAIN df_raw
    /\ DateTime(2024, 3, 21, 4, 59) \in DOMAIN df_raw
    /\ Cardinality(DOMAIN df_raw) = 5 * 60 + 14 * 60
    /\ Cardinality(DOMAIN df_5m) = 228

-----------------------------------------------------------------------------
(* The main run                                                            *)

\* the two trading days of the run: Tuesday 2024-03-19 and the settlement
\* Wednesday 2024-03-20
Day0 == DaysFromCivil(2024, 3, 19)

At(d, hh, mm) == (Day0 + d) * MinPerDay + hh * 60 + mm

\* where the feed's reply starts: at the Day session's open, or inside it
FeedStarts == {At(0, 8, 45), At(0, 11, 0)}

\* the wall clock of the run; the feed replies with the bars up to it
Clocks ==
    {At(0, 12, 50), At(0, 13, 42), At(0, 13, 50), At(0, 14, 30),
     At(0, 20, 0), At(1, 4, 30), At(1, 5, 3), At(1, 12, 50)}

\* stretches (from, to] the feed has no bars for
FeedGaps ==
    {<<0, 0>>, <<At(0, 9, 0), At(0, 9, 5)>>, <<At(0, 21, 0), At(0, 22, 0)>>}

\* a minute the exchange trades in, stamped with the minute's end
MarketMinute(t) ==
    \/ TimeOfDay(t) > MARKET_HOURS.D.open /\ TimeOfDay(t) <= MARKET_HOURS.D.close
    \/ TimeOfDay(t) > MARKET_HOURS.N.open
    \/ TimeOfDay(t) <= MARKET_HOURS.N.close

\* the five minutes after a session's close
StrayMinute(t) ==
    \/ TimeOfDay(t) > MARKET_HOURS.D.close
         /\ TimeOfDay(t) <= MARKET_HOURS.D.close + 5
    \/ TimeOfDay(t) > MARKET_HOURS.N.close
         /\ TimeOfDay(t) <= MARKET_HOURS.N.close + 5

\* the timestamps of the feed's reply
FeedMinutes(from, to, gap, stray) ==
    {t \in (from + 1)..to :
        /\ MarketMinute(t) \/ (stray /\ StrayMinute(t))
        /\ ~(t > gap[1] /\ t <= gap[2])}

\* a worksheet's header row as case A writes it
HeaderRow ==
    [j \in 1..(Len(CandleColumns) + 1) |->
        Str(<<>>, IF j = 1 THEN "ts" ELSE CandleColumns[j - 1])]

\* a candle with every column, all prices v
StubCandle(v, tag) ==
    [Open |-> v, High |-> v, Low |-> v, Close |-> v, Volume |-> 1,
     date_market_type          |-> tag,
     contract_year_month       |-> Str(<<202403>>, ""),
     accumulated_contract_diff |-> 0,
     MXF_code                  |-> Str(<<1>>, "MXFR")]

\* a worksheet an earlier run wrote: the header and the candle at ts
SheetUpTo(ts) ==
    AfterAppend(<<>>, [t \in {ts} |->
                          StubCandle(17000, get_market_date_str(t, FALSE))])

\* the worksheets of both tabs before the run: both empty, or both written
\* up to 2024-03-19 09:45
SheetsBefore ==
    {NoSheets,
     [tab \in {TAB_NAME_5MIN, TAB_NAME_60MIN} |-> SheetUpTo(At(0, 9, 45))]}

NoError == [timeframe |-> "", lines |-> {}]

Init ==
    /\ pc = "start"
    /\ df_config \in {<<Row202402(0, -35), Row202403(-35, 52)>>, <<>>}
    /\ target_contract = NoContract
    /\ df_raw = <<>>
    /\ now = 0
    /\ df_5m = <<>>
    /\ df_60m = <<>>
    /\ errors = NoError
    /\ sheets \in SheetsBefore
    /\ sheets_start = sheets
    /\ last_call = NoCall

\* calculate_next_contract on an empty table: iloc[-1] raises IndexError,
\* main reports a fatal error
config_empty ==
    /\ pc = "start"
    /\ df_config = <<>>
    /\ pc' = "crashed"
    /\ UNCHANGED <<df_config, target_contract, df_raw, now, df_5m, df_60m,
                   errors, sheets, sheets_start, last_call>>

\* fetch_and_parse_kbars: the bars the feed holds up to the wall clock
fetch ==
    /\ pc = "fetch"
    /\ \E from \in FeedStarts, clock \in Clocks, gap \in FeedGaps,
          stray \in BOOLEAN :
          /\ from < clock
          /\ now' = clock
          /\ df_raw' = [t \in FeedMinutes(from, clock, gap, stray) |->
                          Bar(t, 1)]
    /\ pc' = "fetched"
    /\ UNCHANGED <<df_config, target_contract, df_5m, df_60m, errors, sheets,
                   sheets_start, last_call>>

\* fetch_and_parse_kbars when the feed has no bars (df.empty)
fetch_nothing ==
    /\ pc = "fetch"
    /\ df_raw' = <<>>
    /\ now' \in {At(0, 12, 50), At(1, 5, 3)}
    /\ pc' = "fetched"
    /\ UNCHANGED <<df_config, target_contract, df_5m, df_60m, errors, sheets,
                   sheets_start, last_call>>

\* main, lines 516-517: "No data fetched from API"
no_data ==
    /\ pc = "fetched"
    /\ DOMAIN df_raw = {}
    /\ pc' = "done"
    /\ UNCHANGED <<df_config, target_contract, df_raw, now, df_5m, df_60m,
                   errors, sheets, sheets_start, last_call>>

\* main, lines 502-503
drop_5m ==
    /\ pc = "resampled"
    /\ df_5m' = drop_incomplete_current_session(df_5m, "5min", now)
    /\ pc' = "dropped5"
    /\ UNCHANGED <<df_config, target_contract, df_raw, now, df_60m, errors,
                   sheets, sheets_start, last_call>>

drop_60m ==
    /\ pc = "dropped5"
    /\ df_60m' = drop_incomplete_current_session(df_60m, "60min", now)
    /\ pc' = "dropped60"
    /\ UNCHANGED <<df_config, target_contract, df_raw, now, df_5m, errors,
                   sheets, sheets_start, last_call>>

\* main, lines 506-507 and the ValueError handler of lines 521-525
check_5m ==
    /\ pc = "dropped60"
    /\ LET lines == check_completeness(df_5m, "5min")
       IN  IF lines # {}
           THEN /\ errors' = [timeframe |-> "5min", lines |-> lines]
                /\ pc' = "aborted"
           ELSE /\ errors' = errors
                /\ pc' = "checked5"
    /\ UNCHANGED <<df_config, target_contract, df_raw, now, df_5m, df_60m,
                   sheets, sheets_start, last_call>>

\* check_60m with the 60-minute failure reported but not raised
check_60m_not_raised ==
    /\ pc = "checked5"
    /\ LET lines == check_completeness(df_60m, "60min")
       IN  /\ errors' = IF lines # {}
                        THEN [timeframe |-> "60min", lines |-> lines]
                        ELSE errors
           /\ pc' = "checked60"
    /\ UNCHANGED <<df_config, target_contract, df_raw, now, df_5m, df_60m,
                   sheets, sheets_start, last_call>>

check_60m ==
    /\ pc = "checked5"
    /\ LET lines == check_completeness(df_60m, "60min")
       IN  IF lines # {}
           THEN /\ errors' = [timeframe |-> "60min", lines |-> lines]
                /\ pc' = "aborted"
           ELSE /\ errors' = errors
                /\ pc' = "checked60"
    /\ UNCHANGED <<df_config, target_contract, df_raw, now, df_5m, df_60m,
                   sheets, sheets_start, last_call>>

\* main, lines 510-511; used_code is "MXFR1" under FORCE_MXFR1
add_code ==
    /\ pc = "checked60"
    /\ LET used_code == IF FORCE_MXFR1 THEN Str(<<1>>, "MXFR")
                        ELSE target_contract
       IN  /\ df_5m' = WithCode(df_5m, used_code)
           /\ df_60m' = WithCode(df_60m, used_code)
    /\ pc' = "upload5"
    /\ UNCHANGED <<df_config, target_contract, df_raw, now, errors, sheets,
                   sheets_start, last_call>>

\* the outcomes of the two worksheet requests of append_safely
IOOutcomes == {"ok", "read_failed", "append_failed"}

\* append_safely(gc, tab_name, df_new): when the worksheet read fails the
\* call returns before _prepare_data; when there is data to write the
\* append_rows call may fail; either way the worksheet stays as it is
append_safely(tab_name, df_new) ==
    \E io \in IOOutcomes :
        LET existing_data == sheets[tab_name]
            df_export     == _prepare_data(df_new, existing_data)
        IN  /\ io = "append_failed" => ~IsEmptyFrame(df_export)
            /\ sheets' = [sheets EXCEPT ![tab_name] =
                            IF io = "ok" THEN AfterAppend(@, df_new) ELSE @]
            /\ last_call' =
                  [last_call EXCEPT ![tab_name] =
                     [called        |-> TRUE,
                      io            |-> io,
                      df_new        |-> df_new,
                      existing_data |-> existing_data,
                      df_export     |-> IF io = "read_failed"
                                        THEN [columns |-> <<>>, rows |-> <<>>,
                                              needs_header |-> FALSE]
                                        ELSE df_export]]

\* main, lines 514-515
upload_5m ==
    /\ pc = "upload5"
    /\ append_safely(TAB_NAME_5MIN, df_5m)
    /\ pc' = "upload60"
    /\ UNCHANGED <<df_config, target_contract, df_raw, now, df_5m, df_60m,
                   errors, sheets_start>>

upload_60m ==
    /\ pc = "upload60"
    /\ append_safely(TAB_NAME_60MIN, df_60m)
    /\ pc' = "done"
    /\ UNCHANGED <<df_config, target_contract, df_raw, now, df_5m, df_60m,
                   errors, sheets_start>>

Next ==
    \/ calculate_next_contract
    \/ config_empty
    \/ fetch
    \/ fetch_nothing
    \/ no_data
    \/ resample
    \/ drop_5m
    \/ drop_60m
    \/ check_5m
    \/ check_60m
    \/ add_code
    \/ upload_5m
    \/ upload_60m

Spec == Init /\ [][Next]_vars

\* the expected candle count of a session, by timeframe and D/N
ExpectedCount(timeframe, market_type) ==
    IF timeframe = "5min"
    THEN (IF market_type = "D" THEN 60 ELSE 168)
    ELSE (IF market_type = "D" THEN 5 ELSE 14)

\* the candles of df in session group g
SessionCandles(df, g) == {t \in DOMAIN df : get_group_id(t) = g}

\* every session group of df other than UNKNOWN whose count is not the
\* expected one, with both counts
MismatchLines(df, timeframe) ==
    {[group_id |-> g,
      expected |-> ExpectedCount(timeframe, g.s),
      actual   |-> Cardinality(SessionCandles(df, g))] :
        g \in {h \in {get_group_id(t) : t \in DOMAIN df} :
                 /\ h.s \in {"D", "N"}
                 /\ Cardinality(SessionCandles(df, h))
                      # ExpectedCount(timeframe, h.s)}}

AfterDrop ==
    {"dropped60", "checked5", "checked60", "upload5", "upload60", "done",
     "aborted"}

(***************************************************************************)
(* C1: in a run, if check_completeness fails for the 5-minute or for the   *)
(* 60-minute candles (as they are after the drop step), no append is       *)
(* performed on either tab: append_safely is never called and both         *)
(* worksheets stay as they were when the run started.                      *)
(***************************************************************************)
C1_NoPartialUpload ==
    (/\ pc \in AfterDrop
     /\ DOMAIN df_raw # {}
     /\ \/ check_completeness(df_5m, "5min") # {}
        \/ check_completeness(df_60m, "60min") # {})
    => /\ sheets = sheets_start
       /\ last_call = NoCall
       /\ pc \in {"dropped60", "checked5", "aborted"}

\* the 5-minute candles passed the check, the 60-minute candles failed it,
\* and the run ended with both worksheets untouched
C1_Witness ==
    /\ pc = "aborted"
    /\ errors.timeframe = "60min"
    /\ DOMAIN df_5m # {}
    /\ check_completeness(df_5m, "5min") = {}
    /\ sheets = sheets_start

(***************************************************************************)
(* C5: check_completeness(candles, timeframe) raises exactly when some     *)
(* session group other than UNKNOWN holds a number of candles different    *)
(* from the expected one (5min: D 60, N 168; 60min: D 5, N 14); the error  *)
(* it raises lists every such session with its expected and its observed   *)
(* count; when no group mismatches it returns.                             *)
(***************************************************************************)
C5_Completeness ==
    /\ pc = "aborted" =>
          /\ errors.timeframe \in {"5min", "60min"}
          /\ errors.lines # {}
          /\ errors.lines
               = MismatchLines(Frame(errors.timeframe), errors.timeframe)
          /\ errors.timeframe = "60min" => MismatchLines(df_5m, "5min") = {}
    /\ pc = "checked5" => MismatchLines(df_5m, "5min") = {}
    /\ pc \in {"checked60", "upload5", "upload60"} =>
          /\ MismatchLines(df_5m, "5min") = {}
          /\ MismatchLines(df_60m, "60min") = {}
          /\ errors = NoError

\* the error lists two sessions, and the frame holds a candle of no session
C5_Witness ==
    /\ pc = "aborted"
    /\ Cardinality(errors.lines) >= 2
    /\ \E t \in DOMAIN Frame(errors.timeframe) :
          get_group_id(t).s = "UNKNOWN"

\* what drop_incomplete_current_session(before, timeframe) may return when
\* the wall clock is clock
DropResult(before, after, timeframe, clock) ==
    IF DOMAIN before = {} THEN after = before
    ELSE LET session == get_group_id_drop(Max(DOMAIN before))
             trailing == {t \in DOMAIN before :
                            get_group_id_drop(t) = session}
         IN  IF /\ session = get_group_id_drop(clock)
                /\ session.s \in {"D", "N"}
                /\ Cardinality(trailing)
                     < ExpectedCount(timeframe, session.s)
             THEN /\ DOMAIN after = DOMAIN before \ trailing
                  /\ \A t \in DOMAIN after : after[t] = before[t]
             ELSE after = before

(***************************************************************************)
(* C6: drop_incomplete_current_session(candles, timeframe): when the       *)
(* session of the last candle is the session of the wall clock and holds   *)
(* fewer candles than expected, the result holds no candle of that session *)
(* and every candle of every other session, unchanged and in order; in     *)
(* every other case the result is the input.                               *)
(***************************************************************************)
C6_DropIncomplete ==
    [][/\ (pc = "resampled" /\ pc' = "dropped5")
            => DropResult(df_5m, df_5m', "5min", now)
       /\ (pc = "dropped5" /\ pc' = "dropped60")
            => DropResult(df_60m, df_60m', "60min", now)]_vars

\* the Night session in progress was dropped from both frames, the Day
\* session before it was kept
C6_Witness ==
    /\ pc = "dropped60"
    /\ \E t \in DOMAIN df_raw : Hour(t) >= 15
    /\ DOMAIN df_5m # {}
    /\ DOMAIN df_60m # {}
    /\ \A t \in DOMAIN df_5m \cup DOMAIN df_60m : get_group_id_drop(t).s = "D"

\* when the session of the candle labelled t closes
SessionClose(t) ==
    IF TimeOfDay(t) >= MARKET_HOURS.N.open
    THEN (DayOf(t) + 1) * MinPerDay + MARKET_HOURS.N.close
    ELSE IF TimeOfDay(t) <= MARKET_HOURS.N.close
    THEN DayOf(t) * MinPerDay + MARKET_HOURS.N.close
    ELSE DayOf(t) * MinPerDay + MARKET_HOURS.D.close

(***************************************************************************)
(* C10: in every run, every 5-minute and every 60-minute candle handed to  *)
(* the uploader belongs to a session that has closed by the wall clock.    *)
(***************************************************************************)
C10_OnlyClosedSessions ==
    pc \in {"upload5", "upload60", "done"} =>
        \A tf \in {"5min", "60min"} : \A t \in DOMAIN Frame(tf) :
            SessionClose(t) <= now

-----------------------------------------------------------------------------
(* The uploader, run after run                                             *)

MaxRuns == 2

\* 2024-03-01 13:40, the last timestamp an earlier run wrote
LastWritten == DateTime(2024, 3, 1, 13, 40)

\* the wall clock of the first run; a run follows the one before a day later
FirstRunClock == DateTime(2024, 3, 4, 13, 50)

\* the candle frame, with every column, over the index S
Candles(S) ==
    [t \in S |-> StubCandle(17000 + TimeOfDay(t),
                            get_market_date_str(t, FALSE))]

\* the 5-minute and the 60-minute frame main hands to the uploader in a run
RunInputs ==
    {<<Candles({}), Candles({})>>,
     <<Candles({LastWritten - 5, LastWritten}),
       Candles({LastWritten - 55})>>,
     <<Candles({LastWritten, LastWritten + 5}),
       Candles({LastWritten - 55, LastWritten + 5})>>,
     <<Candles({LastWritten + 5, FirstRunClock - 5 * 60}),
       Candles({LastWritten + 5, FirstRunClock - 5 * 60})>>}

\* a header row with the given column names
Header(names) == [j \in 1..Len(names) |-> Str(<<>>, names[j])]

\* the worksheet row of the candle at t under the column names: the
\* timestamp under "ts" and under "time", the candle's value under a candle
\* column, an empty cell under any other name
SheetRow(names, t) ==
    [j \in 1..Len(names) |->
        IF names[j] \in {"ts", "time"} THEN StrfDateTime(t)
        ELSE IF names[j] \in DOMAIN Candles({t})[t]
        THEN CellOf(Candles({t}), t, names[j])
        ELSE Str(<<>>, "")]

\* a worksheet: the header and the rows of the candles over S
Table(names, S) ==
    <<Header(names)>> \o
    [i \in 1..Cardinality(S) |-> SheetRow(names, SortedIndex(S)[i])]

AllNames == <<"ts">> \o CandleColumns

\* a row whose ts cell holds the string cell
RowWithTs(cell) == [SheetRow(AllNames, LastWritten) EXCEPT ![1] = cell]

\* the worksheets get_all_values may return before the first run
Destinations ==
    {<<>>,
     Table(AllNames, {}),
     Table(AllNames, {LastWritten - 5, LastWritten}),
     Table(<<"Open", "ts", "Close">>, {}),
     Table(<<"Open", "ts", "Close">>, {LastWritten}),
     Table(<<"ts", "Open", "note">>, {}),
     Table(<<"time", "Open", "High", "Low", "Close", "Volume">>,
           {LastWritten - 5, LastWritten}),
     Table(AllNames, {LastWritten}) \o <<RowWithTs(Str(<<>>, ""))>>,
     Table(AllNames, {LastWritten}) \o <<RowWithTs(Str(<<>>, "n/a"))>>}

InitUploader ==
    /\ pc = "upload5"
    /\ df_config = <<>>
    /\ target_contract = NoContract
    /\ df_raw = <<>>
    /\ now = FirstRunClock
    /\ \E input \in RunInputs : df_5m = input[1] /\ df_60m = input[2]
    /\ errors = NoError
    /\ \E d \in Destinations :
          sheets = [tab \in {TAB_NAME_5MIN, TAB_NAME_60MIN} |-> d]
    /\ sheets_start = sheets
    /\ last_call = NoCall

\* the next run of main reaches its uploads with that run's frames
next_run ==
    /\ pc = "done"
    /\ now < FirstRunClock + (MaxRuns - 1) * MinPerDay
    /\ now' = now + MinPerDay
    /\ \E input \in RunInputs : df_5m' = input[1] /\ df_60m' = input[2]
    /\ pc' = "upload5"
    /\ UNCHANGED <<df_config, target_contract, df_raw, errors, sheets,
                   sheets_start, last_call>>

NextUploader ==
    \/ upload_5m
    \/ upload_60m
    \/ next_run

SpecUploader == InitUploader /\ [][NextUploader]_vars

\* the column of a worksheet that holds the timestamps: the one the header
\* names ts, the first when the header names none
TsColumn(sheet) ==
    LET named == {j \in 1..Len(sheet[1]) : sheet[1][j] = Str(<<>>, "ts")}
    IN  IF named = {} THEN 1 ELSE Min(named)

\* the timestamp of row i of a worksheet
RowTs(sheet, i) ==
    IF TsColumn(sheet) \in 1..Len(sheet[i])
    THEN to_datetime(sheet[i][TsColumn(sheet)])
    ELSE [kind |-> "error", ts |-> 0]

\* the i-th smallest element of S
Nth(S, i) == CHOOSE t \in S : Cardinality({u \in S : u < t}) = i - 1

\* the candle of df at t as a worksheet row: its cells under the header's
\* ts and candle columns, in the header's order
ProjectedRow(df, t, header) ==
    LET known == SelectSeq(header,
                           LAMBDA h : /\ h.n = <<>>
                                      /\ h.s \in {"ts"} \cup DOMAIN df[t])
    IN  [j \in 1..Len(known) |->
            IF known[j].s = "ts" THEN StrfDateTime(t)
            ELSE CellOf(df, t, known[j].s)]

Tabs == {TAB_NAME_5MIN, TAB_NAME_60MIN}

(***************************************************************************)
(* C2: when the worksheet holds a header row and at least one data row     *)
(* (whose last row carries a timestamp), _prepare_data emits exactly the   *)
(* rows of the new candles whose timestamp is strictly greater than the    *)
(* timestamp of the last existing row, in index order, and asks for no     *)
(* header; a new candle at the last existing timestamp is not emitted.     *)
(***************************************************************************)
C2_StrictlyNewer ==
    \A tab \in Tabs :
        LET c == last_call[tab] IN
        (/\ c.called
         /\ c.io # "read_failed"
         /\ Len(c.existing_data) >= 2
         /\ RowTs(c.existing_data, Len(c.existing_data)).kind = "ts")
        => LET last  == RowTs(c.existing_data, Len(c.existing_data)).ts
               newer == {t \in DOMAIN c.df_new : t > last}
           IN  /\ c.df_export.needs_header = FALSE
               /\ Len(c.df_export.rows) = Cardinality(newer)
               /\ \A i \in 1..Len(c.df_export.rows) :
                     c.df_export.rows[i]
                       = ProjectedRow(c.df_new, Nth(newer, i),
                                      c.existing_data[1])
               /\ c.io = "ok" =>
                     sheets[tab] = c.existing_data \o c.df_export.rows

\* the worksheet held rows up to 2024-03-01 13:40, the new candles were
\* those of 13:40 and 13:45, and only the row of 13:45 was appended
C2_Witness ==
    LET c == last_call[TAB_NAME_5MIN] IN
    /\ c.called
    /\ c.io = "ok"
    /\ c.existing_data = Table(AllNames, {LastWritten - 5, LastWritten})
    /\ DOMAIN c.df_new = {LastWritten, LastWritten + 5}
    /\ sheets[TAB_NAME_5MIN]
         = c.existing_data \o <<SheetRow(AllNames, LastWritten + 5)>>

\* the data rows of a worksheet carry strictly ascending timestamps
Ascending(sheet) ==
    /\ \A i \in 2..Len(sheet) : RowTs(sheet, i).kind = "ts"
    /\ \A i \in 2..(Len(sheet) - 1) :
          RowTs(sheet, i).ts < RowTs(sheet, i + 1).ts

\* a row of column names
IsHeaderRow(row) ==
    /\ row # <<>>
    /\ \A j \in 1..Len(row) : row[j].n = <<>> /\ row[j].s # ""

\* sheet begins with the rows of old, unchanged
IsPrefix(old, sheet) ==
    /\ Len(old) <= Len(sheet)
    /\ \A i \in 1..Len(old) : sheet[i] = old[i]

\* a worksheet the uploader may start from: empty, header only, or with data
\* rows in strictly ascending timestamp order
StartOK(sheet) == Len(sheet) <= 1 \/ Ascending(sheet)

(***************************************************************************)
(* C3: starting from a worksheet that is empty, header only, or whose data *)
(* rows are in strictly ascending timestamp order, after any sequence of   *)
(* runs of the uploader the data rows are in strictly ascending timestamp  *)
(* order, every row present before is present unchanged at its position,   *)
(* and no row but the first is a header row.                               *)
(***************************************************************************)
C3_AscendingAppendOnly ==
    \A tab \in Tabs :
        StartOK(sheets_start[tab]) =>
            /\ Ascending(sheets[tab])
            /\ IsPrefix(sheets_start[tab], sheets[tab])
            /\ \A i \in 2..Len(sheets[tab]) : ~IsHeaderRow(sheets[tab][i])

\* the second of two consecutive append_safely calls on tab with the same
\* non-empty frame
SecondCall(tab, frame, from, to) ==
    /\ pc = from
    /\ pc' = to
    /\ last_call[tab].called
    /\ last_call[tab].df_new = frame
    /\ DOMAIN frame # {}

(***************************************************************************)
(* C4 as stated: for any non-empty candle frame and any worksheet, running *)
(* append_safely with the frame and then again with the same frame appends *)
(* no row in the second run.                                               *)
(***************************************************************************)
C4_Idempotent ==
    [][/\ SecondCall(TAB_NAME_5MIN, df_5m, "upload5", "upload60")
            => sheets'[TAB_NAME_5MIN] = sheets[TAB_NAME_5MIN]
       /\ SecondCall(TAB_NAME_60MIN, df_60m, "upload60", "done")
            => sheets'[TAB_NAME_60MIN] = sheets[TAB_NAME_60MIN]]_vars

(***************************************************************************)
(* C4, amended: for any non-empty candle frame and any worksheet, when a   *)
(* run of append_safely with the frame read the worksheet and its          *)
(* append_rows call (if it made one) succeeded, running append_safely      *)
(* again with the same frame appends no row: the worksheet after the two   *)
(* runs is the worksheet after the first.                                  *)
(***************************************************************************)
C4_IdempotentAfterSuccess ==
    [][/\ (/\ SecondCall(TAB_NAME_5MIN, df_5m, "upload5", "upload60")
           /\ last_call[TAB_NAME_5MIN].io = "ok")
            => sheets'[TAB_NAME_5MIN] = sheets[TAB_NAME_5MIN]
       /\ (/\ SecondCall(TAB_NAME_60MIN, df_60m, "upload60", "done")
           /\ last_call[TAB_NAME_60MIN].io = "ok")
            => sheets'[TAB_NAME_60MIN] = sheets[TAB_NAME_60MIN]]_vars

\* the first run appended the frame's rows to the worksheet it started from,
\* the second run read that worksheet, had the same frame and appended
\* nothing
C4_Witness ==
    LET c == last_call[TAB_NAME_5MIN] IN
    /\ pc = "upload60"
    /\ now = FirstRunClock + MinPerDay
    /\ c.called
    /\ c.io = "ok"
    /\ DOMAIN c.df_new # {}
    /\ c.df_new = df_5m
    /\ c.existing_data = AfterAppend(sheets_start[TAB_NAME_5MIN], c.df_new)
    /\ c.existing_data # sheets_start[TAB_NAME_5MIN]
    /\ sheets[TAB_NAME_5MIN] = c.existing_data

-----------------------------------------------------------------------------
(* The gate's session against the resampler's tag                          *)

\* the gate's group id g names the session the tag names: the same calendar
\* date ('%Y-%m-%d' against '%y%m%d') and the same D/N suffix
SameSession(g, tag) ==
    /\ g.s = tag.s
    /\ Len(g.n) = 3
    /\ tag.n = <<g.n[1] % 100, g.n[2], g.n[3]>>

(***************************************************************************)
(* C11: for every candle resample_and_split outputs, of either timeframe   *)
(* (the candles kept in the Day split [08:45, 13:45] and in the Night      *)
(* split [15:00, 05:00]), the gate's get_group_id yields the calendar date *)
(* and the D/N suffix of the candle's date_market_type; it never yields    *)
(* UNKNOWN for a tagged candle, and two candles share a gate group exactly *)
(* when they share a tag.                                                  *)
(***************************************************************************)
C11_GateAgreesWithTag ==
    \A tf \in {"5min", "60min"} :
        LET df == Frame(tf) IN
        /\ \A t \in DOMAIN df :
              /\ get_group_id(t).s # "UNKNOWN"
              /\ SameSession(get_group_id(t), df[t].date_market_type)
        /\ \A t, u \in DOMAIN df :
              (get_group_id(t) = get_group_id(u))
                <=> (df[t].date_market_type = df[u].date_market_type)

=============================================================================
